---- MODULE Spec2Model ----
(***************************************************************************)
(* Progress-signal relay of the temporal-a2a-gateway python workers.       *)
(*                                                                         *)
(* A task workflow keeps a per-task log (self.progress_signals), appends   *)
(* events to it with add_progress_signal, and pushes progress_update       *)
(* signals to a gateway workflow with _signal_gateway (and, in the         *)
(* real-time variant, from the activity with StreamingContext.send_chunk). *)
(*                                                                         *)
(* Encoding.  Text is a sequence of characters; "Echo:" and "Hello" are    *)
(* single non-blank characters of the alphabet.  A float progress p is the *)
(* integer 1000*p.  Python None is the record None for dict-valued fields  *)
(* and the string NoneId for identifiers.  A formatted identifier          *)
(* (f"streaming-echo-{task_id}-chunk-{i}") is the record of its pieces.    *)
(***************************************************************************)
EXTENDS Integers, Sequences, FiniteSets, TLC

VARIABLES
    kind,         \* which workflow class runs the task
    task_id,      \* workflow.info().workflow_id
    task_input,   \* the dict the workflow is started with
    behaviour,    \* what the agent's activity / handler does on this input
    wf,           \* the workflow instance and the frame of its run()
    gateway,      \* every handle.signal("progress_update", update) call made
    ref,          \* the same run in which every signal delivery succeeds
    snapshot      \* what the last get_progress_signals query returned

vars == <<kind, task_id, task_input, behaviour, wf, gateway, ref, snapshot>>

-----------------------------------------------------------------------------
(* Bounds *)

MaxLen == 2          \* longest message text
MaxCalls == 3        \* direct add_progress_signal calls on a bare workflow

-----------------------------------------------------------------------------
(* Python values *)

None == [py |-> "None"]
NoneId == "None"

Truthy(v) == v # NoneId /\ v # ""

Min(a, b) == IF a < b THEN a ELSE b

Last(s) == s[Len(s)]

-----------------------------------------------------------------------------
(* Text *)

Blank == " "
Alphabet == {"a", Blank}

Texts == UNION {[1..n -> Alphabet] : n \in 0..MaxLen}

RECURSIVE SplitFrom(_, _, _)
\* str.split(): the maximal runs of non-blank characters, in order
SplitFrom(s, i, word) ==
    IF i > Len(s)
    THEN IF word = <<>> THEN <<>> ELSE <<word>>
    ELSE IF s[i] = Blank
         THEN IF word = <<>>
              THEN SplitFrom(s, i + 1, <<>>)
              ELSE <<word>> \o SplitFrom(s, i + 1, <<>>)
         ELSE SplitFrom(s, i + 1, Append(word, s[i]))

split(s) == SplitFrom(s, 1, <<>>)

RECURSIVE JoinUpTo(_, _)
\* " ".join(words[:n])
JoinUpTo(words, n) ==
    IF n = 0 THEN <<>>
    ELSE IF n = 1 THEN words[1]
    ELSE JoinUpTo(words, n - 1) \o <<Blank>> \o words[n]

\* f"Echo: {user_message}"
EchoFormat(user_message) == <<"Echo:", Blank>> \o user_message

\* workflow_id.split('-')[0][:8]
ShortIdLen == 8

RECURSIVE UpToDash(_, _)
UpToDash(id, i) ==
    IF i > Len(id) \/ id[i] = "-" THEN <<>>
    ELSE <<id[i]>> \o UpToDash(id, i + 1)

ShortTaskId(id) ==
    LET head == UpToDash(id, 1)
    IN  SubSeq(head, 1, Min(Len(head), ShortIdLen))

-----------------------------------------------------------------------------
(* Messages, artifacts, results *)

TextPart(t) == [kind |-> "text", text |-> t]

\* A2AMessage.get_text / the extraction loop of the echo workflows
RECURSIVE FirstText(_, _)
FirstText(parts, i) ==
    IF i > Len(parts) THEN <<>>
    ELSE IF "text" \in DOMAIN parts[i] THEN parts[i].text
    ELSE FirstText(parts, i + 1)

ArtifactDict(id, name, text) ==
    [artifactId |-> id, name |-> name, parts |-> <<TextPart(text)>>]

\* Artifact.to_dict() of echo_worker: carries a description as well
Artifact_to_dict(id, name, description, text) ==
    [artifactId |-> id, name |-> name, description |-> description,
     parts |-> <<TextPart(text)>>]

ResultOf(artifact) == [artifacts |-> <<artifact>>]

ErrorResult_without_artifacts(error_msg) == [error |-> error_msg]

ErrorResult(error_msg) == [artifacts |-> <<>>, error |-> error_msg]

\* A2AResponse.text(content, name).to_dict(); the artifactId is a uuid4
A2AResponse_text(content, name) ==
    ResultOf(ArtifactDict([prefix |-> "uuid4", task |-> <<>>, part |-> "", n |-> 0],
                          name, content))

IsTerminal(status) == status \in {"completed", "failed", "canceled"}

-----------------------------------------------------------------------------
(* The log *)

add_progress_signal_front(progress_signals, tid, now, status, progress, result, error) ==
    <<[taskId |-> tid, status |-> status, progress |-> progress,
       result |-> result, error |-> error, timestamp |-> now]>> \o progress_signals

\* add_progress_signal: build the event and append it to self.progress_signals
add_progress_signal(progress_signals, tid, now, status, progress, result, error) ==
    Append(progress_signals,
           [taskId |-> tid, status |-> status, progress |-> progress,
            result |-> result, error |-> error, timestamp |-> now])

get_progress_signals_latest(w) ==
    IF w.progress_signals = <<>> THEN <<>> ELSE <<Last(w.progress_signals)>>

\* get_progress_signals: the query handler returns the list itself
get_progress_signals(w) == w.progress_signals

Add_not_appended(w, status, progress, result, error) ==
    [w EXCEPT !.calls = Append(@, [status |-> status, progress |-> progress,
                                   result |-> result, error |-> error])]

Add_str_error(w, status, progress, result, error) ==
    [w EXCEPT !.progress_signals =
                  add_progress_signal(@, w.task_id, w.now, status, progress, result,
                                      IF error = "" THEN "None" ELSE error),
              !.calls = Append(@, [status |-> status, progress |-> progress,
                                   result |-> result, error |-> error])]

\* self.add_progress_signal(status, progress, result, error) on instance w;
\* w.calls remembers the arguments of every call
Add(w, status, progress, result, error) ==
    [w EXCEPT !.progress_signals =
                  add_progress_signal(@, w.task_id, w.now, status, progress, result, error),
              !.calls = Append(@, [status |-> status, progress |-> progress,
                                   result |-> result, error |-> error])]

-----------------------------------------------------------------------------
(* The workflow instance and the frame of run() *)

\* __init__: self.progress_signals = []; run() has not started
NewWorkflow(tid) ==
    [task_id |-> tid, pc |-> "start", progress_signals |-> <<>>, calls |-> <<>>,
     now |-> 0, ret |-> None, error_msg |-> "", chunks |-> <<>>, chunk_count |-> 0,
     streaming_result |-> None, final_result |-> None, final_artifact |-> None,
     handle |-> FALSE, sent_chunks |-> 0, attempt |-> 0]

\* what one step of run() yields: the new frame and the signal calls it made
Yield(w, out) == [w |-> w, out |-> out]

Goto(w, pc) == [w EXCEPT !.pc = pc]

\* an exception inside the try block of run(): control moves to the handler
Raise(w, msg) == [w EXCEPT !.pc = "except", !.error_msg = msg]

\* return value: run() is over
Return(w, value) == [w EXCEPT !.pc = "done", !.ret = value]

\* an await on something outside the workflow: workflow time moves on
Tick(w) == [w EXCEPT !.now = @ + 1]

-----------------------------------------------------------------------------
(* Signals to the gateway workflow *)

SignalCall(update, delivered, sender) ==
    [update |-> update, delivered |-> delivered, sender |-> sender]

WithArtifact(update, artifact) ==
    IF artifact = None THEN update
    ELSE [f \in DOMAIN update \cup {"artifact"} |->
             IF f = "artifact" THEN artifact ELSE update[f]]

ProgressUpdate_lastChunk_always(w, status, progress, artifact) ==
    WithArtifact([taskId |-> w.task_id, status |-> status, progress |-> progress,
                  timestamp |-> w.now,
                  append |-> progress > 100,
                  lastChunk |-> TRUE], artifact)

\* the update dict of the three _signal_gateway methods
ProgressUpdate(w, status, progress, artifact) ==
    WithArtifact([taskId |-> w.task_id, status |-> status, progress |-> progress,
                  timestamp |-> w.now,
                  append |-> progress > 100,
                  lastChunk |-> (status = "completed")], artifact)

\* the update dict of internal/workflows.py: no append / lastChunk keys
InternalUpdate(w, status, progress, artifact) ==
    WithArtifact([taskId |-> w.task_id, status |-> status, progress |-> progress,
                  timestamp |-> w.now], artifact)

\* A2AProgressUpdate(...).to_dict() as built by StreamingContext.send_chunk
ChunkUpdate(w, chunk_count, artifact) ==
    WithArtifact([taskId |-> w.task_id, status |-> "working", timestamp |-> w.now,
                  append |-> chunk_count > 1, lastChunk |-> FALSE], artifact)

SignalResult(out, raised) == [out |-> out, raised |-> raised]

SignalError == "signal failed"

_signal_gateway_uncaught(update, deliver) ==
    SignalResult(<<SignalCall(update, deliver, "workflow")>>, ~deliver)

\* try: handle.signal("progress_update", update)  except Exception: log it
_signal_gateway(update, deliver) ==
    SignalResult(<<SignalCall(update, deliver, "workflow")>>, FALSE)

\* await self._signal_gateway(...) inside the try block of run(); run() then
\* goes on as the frame next
Signalled(w, next, update, deliver) ==
    LET r == _signal_gateway(update, deliver)
    IN  Yield(IF r.raised THEN Raise(Tick(w), SignalError) ELSE Tick(next), r.out)

-----------------------------------------------------------------------------
(* The task input *)

Get(dict, key, default) == IF key \in DOMAIN dict THEN dict[key] ELSE default

\* task_input.get("gateway_workflow_id")
GatewayIdOf(input) == Get(input, "gateway_workflow_id", NoneId)

\* task_input.get("message", task_input)
MessageDataOf(input) == Get(input, "message", input)

\* A2AMessage.from_dict(data).get_text()
TextOf(data) == FirstText(Get(data, "parts", <<>>), 1)

\* f"Echo: {message_text or 'Hello'}"
EchoLogic_process_message(text) ==
    EchoFormat(IF text = <<>> THEN <<"Hello">> ELSE text)

\* EchoLogic.process_streaming_message: " ".join(words[:i+1]) for each i
EchoLogic_process_streaming_message(text) ==
    LET words == split(EchoLogic_process_message(text))
    IN  [i \in 1..Len(words) |-> JoinUpTo(words, i)]

ActivityError == "Activity task failed"

-----------------------------------------------------------------------------
(* Task workflows: the log only, no gateway *)

\* AgentTaskWorkflow.run (temporal_a2a_sdk/workflows.py)
AgentTaskWorkflow_run(w, deliver) ==
    CASE w.pc = "start" ->
            Yield(Goto(Add(w, "working", 100, None, ""), "mid"), <<>>)
      [] w.pc = "mid" ->
            Yield(Goto(Add(w, "working", 500, None, ""), "activity"), <<>>)
      [] w.pc = "activity" ->
            Yield(IF behaviour.outcome = "raise"
                  THEN Raise(Tick(w), behaviour.error)
                  ELSE [Goto(Tick(w), "complete") EXCEPT !.final_result =
                          A2AResponse_text(EchoLogic_process_message(TextOf(task_input)),
                                           "Response")],
                  <<>>)
      [] w.pc = "complete" ->
            Yield(Return(Add(w, "completed", 1000, w.final_result, ""), w.final_result),
                  <<>>)
      [] w.pc = "except" ->
            Yield(Return(Add(w, "failed", 0, None, w.error_msg),
                         ErrorResult(w.error_msg)), <<>>)

\* GeneratedWorkflow.run (workflow_generator.py): the class generated for an
\* SDK agent; the generated activity returns the handler's response as a dict
GeneratedWorkflow_run(w, deliver) ==
    CASE w.pc = "start" ->
            Yield(Goto(Add(w, "working", 100, None, ""), "mid"), <<>>)
      [] w.pc = "mid" ->
            Yield(Goto(Add(w, "working", 500, None, ""), "activity"), <<>>)
      [] w.pc = "activity" ->
            Yield(IF behaviour.outcome = "raise"
                  THEN Raise(Tick(w), behaviour.error)
                  ELSE [Goto(Tick(w), "complete") EXCEPT !.final_result =
                          A2AResponse_text(EchoLogic_process_message(TextOf(task_input)),
                                           "Response")],
                  <<>>)
      [] w.pc = "complete" ->
            Yield(Return(Add(w, "completed", 1000, w.final_result, ""), w.final_result),
                  <<>>)
      [] w.pc = "except" ->
            Yield(Return(Add(w, "failed", 0, None, w.error_msg),
                         ErrorResult(w.error_msg)), <<>>)

\* TaskResult(error=...).to_dict(): the error key only when the message is non-empty
TaskResult_error(error_msg) ==
    IF error_msg = "" THEN [artifacts |-> <<>>] ELSE ErrorResult(error_msg)

\* the extraction loop of the echo workflows, with its "Hello" fallback
UserMessageOf(message_data) ==
    LET text == TextOf(message_data)
    IN  IF text = <<>> THEN <<"Hello">> ELSE text

EchoId(part, n) == [prefix |-> "echo", task |-> task_id, part |-> part, n |-> n]

\* EchoTaskWorkflow.run (workers/echo_worker.py)
EchoTaskWorkflow_run(w, deliver) ==
    CASE w.pc = "start" ->
            Yield(Goto(Add(w, "working", 100, None, ""), "mid"), <<>>)
      [] w.pc = "mid" ->
            Yield(Goto(Add(w, "working", 500, None, ""), "activity"), <<>>)
      [] w.pc = "activity" ->
            Yield(IF behaviour.outcome = "raise"
                  THEN Raise(Tick(w), behaviour.error)
                  ELSE [Goto(Tick(w), "complete") EXCEPT !.final_result =
                          ResultOf(Artifact_to_dict(EchoId("", 0), "Echo Response",
                                                    "Echoed user message",
                                                    EchoFormat(UserMessageOf(task_input))))],
                  <<>>)
      [] w.pc = "complete" ->
            Yield(Return(Add(w, "completed", 1000, w.final_result, ""), w.final_result),
                  <<>>)
      [] w.pc = "except" ->
            Yield(Return(Add(w, "failed", 0, None, w.error_msg),
                         TaskResult_error(w.error_msg)), <<>>)

\* SDKBridgedTaskWorkflow.run (temporal_a2a_sdk/workflow_bridge.py)
SDKBridgedTaskWorkflow_run(w, deliver) ==
    CASE w.pc = "start" ->
            Yield(Goto(Add(w, "working", 100, None, ""), "mid"), <<>>)
      [] w.pc = "mid" ->
            Yield(Goto(Add(w, "working", 500, None, ""), "activity"), <<>>)
      [] w.pc = "activity" ->
            Yield(IF behaviour.handler = "none"
                  THEN Raise(w, "No message handler found in agent")
                  ELSE IF behaviour.outcome = "raise"
                  THEN Raise(Tick(w), behaviour.error)
                  ELSE [Goto(Tick(w), "complete") EXCEPT !.final_result =
                          A2AResponse_text(EchoFormat(TextOf(task_input)),
                                           "Streaming Echo Response")],
                  <<>>)
      [] w.pc = "complete" ->
            Yield(Return(Add(w, "completed", 1000, w.final_result, ""), w.final_result),
                  <<>>)
      [] w.pc = "except" ->
            Yield(Return(Add(w, "failed", 0, None, w.error_msg),
                         ErrorResult(w.error_msg)), <<>>)

-----------------------------------------------------------------------------
(* Streaming workflows: the log and the gateway *)

gateway_workflow_id == GatewayIdOf(task_input)

message_data == MessageDataOf(task_input)

IsStreaming(streaming_result) == Get(streaming_result, "is_streaming", FALSE)

ChunkProgress_unscaled(chunk_count) == 300 + 600 * chunk_count

\* progress = 0.3 + (0.6 * min(chunk_count / 10, 0.9))
ChunkProgress(chunk_count) == 300 + (600 * Min(chunk_count * 100, 900)) \div 1000

\* f"artifact-{task_id.split('-')[0][:8]}"
ShortArtifactId(tid) ==
    [prefix |-> "artifact", task |-> ShortTaskId(tid), part |-> "", n |-> 0]

\* the chunks the agent's streaming activity hands to stream.send_chunk
ActivityChunks == EchoLogic_process_streaming_message(TextOf(message_data))

collect_chunk_first(chunks, chunk) == <<chunk>> \o chunks

\* StreamingContext.send_chunk of the collecting context: self.chunks.append(chunk)
collect_chunk(chunks, chunk) == Append(chunks, chunk)

RECURSIVE get_chunks(_, _)
\* StreamingContext.get_chunks after the activity passed the first n chunks of
\* sent to send_chunk, one call per chunk
get_chunks(sent, n) ==
    IF n = 0 THEN <<>> ELSE collect_chunk(get_chunks(sent, n - 1), sent[n])

\* how many chunks the activity or handler produces before it ends or raises
ProducedChunks(all) ==
    IF behaviour.outcome = "raise" THEN Min(behaviour.raise_after, Len(all)) ELSE Len(all)

\* execute_activity is called without a retry_policy: an attempt that fails
\* with a retryable error is run again by the engine, from its first statement
WillRetry(w) == w.attempt < behaviour.failed_attempts

\* how many chunks the current attempt of the activity produces
AttemptChunks(w, all) ==
    IF WillRetry(w) THEN Min(behaviour.raise_after, Len(all)) ELSE ProducedChunks(all)

\* the next attempt: a new StreamingContext, chunk_count = 0
NextAttempt(w) == [Tick(w) EXCEPT !.attempt = @ + 1, !.sent_chunks = 0]

\* StreamingContext.send_chunk of the real-time contexts: signal from the activity
send_chunk(w, chunk, deliver) ==
    LET n == w.sent_chunks + 1
        artifact == ArtifactDict(ShortArtifactId(w.task_id), "Progressive Response", chunk)
    IN  Yield([Tick(w) EXCEPT !.sent_chunks = n],
              IF w.handle
              THEN <<SignalCall(ChunkUpdate(w, n, artifact), deliver, "activity")>>
              ELSE <<>>)

\* agent_activity.wrapper around process_streaming_activity, one step per chunk
\* in the real-time variant, one step in all in the others; sent_chunks is the
\* chunk_count of the StreamingContext, the number of send_chunk calls made
StreamingActivity(w, deliver) ==
    CASE behaviour.variant \in {"plain", "batch"} /\ WillRetry(w) ->
            Yield(NextAttempt(w), <<>>)
      [] behaviour.variant = "plain" ->
            Yield(IF behaviour.outcome = "raise"
                  THEN Raise(Tick(w), behaviour.error)
                  ELSE [Goto(Tick(w), "complete") EXCEPT !.streaming_result =
                          A2AResponse_text(EchoLogic_process_message(TextOf(message_data)),
                                           "Response")],
                  <<>>)
      [] behaviour.variant = "batch" ->
            Yield(IF behaviour.outcome = "raise"
                  THEN Raise(Tick(w), behaviour.error)
                  ELSE [Goto(Tick(w), IF ActivityChunks = <<>> THEN "complete" ELSE "chunk")
                          EXCEPT !.streaming_result =
                                     [is_streaming |-> TRUE,
                                      chunks |-> get_chunks(ActivityChunks,
                                                            Len(ActivityChunks))],
                                 !.chunks = get_chunks(ActivityChunks, Len(ActivityChunks)),
                                 !.sent_chunks = Len(ActivityChunks)],
                  <<>>)
      [] behaviour.variant = "realtime" ->
            IF w.sent_chunks < AttemptChunks(w, ActivityChunks)
            THEN send_chunk(w, ActivityChunks[w.sent_chunks + 1], deliver)
            ELSE IF WillRetry(w) THEN Yield(NextAttempt(w), <<>>)
            ELSE Yield(IF behaviour.outcome = "raise"
                       THEN Raise(Tick(w), behaviour.error)
                       ELSE [Goto(Tick(w), "complete") EXCEPT !.streaming_result =
                               [is_streaming |-> TRUE, status |-> "completed"]],
                       <<>>)

AfterChunk(w) == Goto(w, IF w.chunk_count < Len(w.chunks) THEN "chunk" ELSE "complete")

\* AgentStreamingWorkflow.run (temporal_a2a_sdk/workflows.py)
AgentStreamingWorkflow_run(w, deliver) ==
    CASE w.pc = "start" ->
            Yield([Goto(Add(w, "working", 100, None, ""),
                        IF Truthy(gateway_workflow_id) THEN "signal_start" ELSE "activity")
                     EXCEPT !.handle = Truthy(gateway_workflow_id) /\ behaviour.handle_ok],
                  <<>>)
      [] w.pc = "signal_start" ->
            Signalled(w, Goto(w, "activity"),
                      ProgressUpdate(w, "working", 100, None), deliver)
      [] w.pc = "activity" -> StreamingActivity(w, deliver)
      [] w.pc = "chunk" ->
            LET n == w.chunk_count + 1
                artifact == ArtifactDict(ShortArtifactId(w.task_id),
                                         "Progressive Response", w.chunks[n])
                w1 == [Add(w, "working", ChunkProgress(n), ResultOf(artifact), "")
                          EXCEPT !.chunk_count = n]
            IN  Yield(IF Truthy(gateway_workflow_id)
                      THEN Goto(w1, "signal_chunk") ELSE AfterChunk(w1), <<>>)
      [] w.pc = "signal_chunk" ->
            Signalled(w, AfterChunk(w),
                      ProgressUpdate(w, "working", ChunkProgress(w.chunk_count),
                                     ArtifactDict(ShortArtifactId(w.task_id),
                                                  "Progressive Response",
                                                  w.chunks[w.chunk_count])),
                      deliver)
      [] w.pc = "complete" ->
            LET final_text == IF w.chunks = <<>> THEN <<>> ELSE Last(w.chunks)
                final_artifact == ArtifactDict(ShortArtifactId(w.task_id),
                                               "Complete Response", final_text)
                final_result == IF IsStreaming(w.streaming_result)
                                THEN ResultOf(final_artifact) ELSE w.streaming_result
                w1 == [Add(w, "completed", 1000, final_result, "")
                          EXCEPT !.final_result = final_result,
                                 !.final_artifact = final_artifact]
            IN  Yield(IF Truthy(gateway_workflow_id) /\ IsStreaming(w.streaming_result)
                      THEN Goto(w1, "signal_complete")
                      ELSE Return(w1, final_result), <<>>)
      [] w.pc = "signal_complete" ->
            Signalled(w, Return(w, w.final_result),
                      ProgressUpdate(w, "completed", 1000, w.final_artifact), deliver)
      [] w.pc = "except" ->
            Yield(Return(Add(w, "failed", 0, None, w.error_msg),
                         ErrorResult(w.error_msg)), <<>>)

StreamingEchoId(tid, part, n) ==
    [prefix |-> "streaming-echo", task |-> tid, part |-> part, n |-> n]

\* progress = 0.3 + (0.6 * (i + 1) / len(words))
WordProgress(n, total) == 300 + (600 * n) \div total

\* f"Echo: {user_message}" of StreamingEchoTaskWorkflow.run
echo_response == EchoFormat(UserMessageOf(message_data))

\* the progressive artifact of word n, as logged (with=TRUE: Artifact.to_dict())
\* and as signalled (with=FALSE: artifact_dict, no description)
ProgressiveEcho(tid, n, with) ==
    LET words == split(echo_response)
        id == StreamingEchoId(tid, "chunk", n)
        name == <<"Progressive Echo (chunk", n, "/", Len(words), ")">>
        current_text == JoinUpTo(words, n)
    IN  IF with
        THEN Artifact_to_dict(id, name,
                 <<"Progressive echo response - word", n, "of", Len(words)>>, current_text)
        ELSE ArtifactDict(id, name, current_text)

FinalEcho(tid, with) ==
    IF with
    THEN Artifact_to_dict(StreamingEchoId(tid, "final", 0), <<"Complete Echo Response">>,
                          <<"Final complete echo response">>, echo_response)
    ELSE ArtifactDict(StreamingEchoId(tid, "final", 0), <<"Complete Echo Response">>,
                      echo_response)

\* the end of one iteration of the word loop: asyncio.sleep(0.5), then the next word
AfterWord(w) ==
    Tick(Goto(w, IF w.chunk_count < Len(split(echo_response)) THEN "chunk" ELSE "complete"))

\* StreamingEchoTaskWorkflow.run (workers/echo_worker.py)
StreamingEchoTaskWorkflow_run(w, deliver) ==
    CASE w.pc = "start" ->
            Yield(Goto(Add(w, "working", 100, None, ""),
                       IF Truthy(gateway_workflow_id) THEN "signal_start" ELSE "chunk"),
                  <<>>)
      [] w.pc = "signal_start" ->
            Signalled(w, Goto(w, "chunk"), ProgressUpdate(w, "working", 100, None), deliver)
      [] w.pc = "chunk" ->
            LET n == w.chunk_count + 1
                progress == WordProgress(n, Len(split(echo_response)))
                w1 == [Add(w, "working", progress,
                           ResultOf(ProgressiveEcho(w.task_id, n, TRUE)), "")
                          EXCEPT !.chunk_count = n]
            IN  Yield(IF Truthy(gateway_workflow_id)
                      THEN Goto(w1, "signal_chunk") ELSE AfterWord(w1), <<>>)
      [] w.pc = "signal_chunk" ->
            Signalled(w, AfterWord(w),
                      ProgressUpdate(w, "working",
                                     WordProgress(w.chunk_count, Len(split(echo_response))),
                                     ProgressiveEcho(w.task_id, w.chunk_count, FALSE)),
                      deliver)
      [] w.pc = "complete" ->
            LET result == ResultOf(FinalEcho(w.task_id, TRUE))
                w1 == [Add(w, "completed", 1000, result, "") EXCEPT !.final_result = result]
            IN  Yield(IF Truthy(gateway_workflow_id)
                      THEN Goto(w1, "signal_complete") ELSE Return(w1, result), <<>>)
      [] w.pc = "signal_complete" ->
            Signalled(w, Return(w, w.final_result),
                      ProgressUpdate(w, "completed", 1000, FinalEcho(w.task_id, FALSE)),
                      deliver)
      [] w.pc = "except" ->
            Yield(Return(Add(w, "failed", 0, None, w.error_msg),
                         TaskResult_error(w.error_msg)), <<>>)

SdkStreamingId(tid, part, n) ==
    [prefix |-> "sdk-streaming", task |-> tid, part |-> part, n |-> n]

\* the chunks the agent's async-generator handler yields
HandlerChunks == EchoLogic_process_streaming_message(TextOf(message_data))

UnboundResult == "local variable 'result' referenced before assignment"

\* line 228: if gateway_workflow_id and isinstance(result, list): signal completed.
\* result is bound only by the non-streaming branch, where it is the handler's
\* response object and not a list.
BridgedAfterCompleted(w) ==
    IF ~Truthy(gateway_workflow_id) THEN Return(w, w.final_result)
    ELSE IF behaviour.handler = "asyncgen" THEN Raise(w, UnboundResult)
    ELSE Return(w, w.final_result)

\* SDKBridgedStreamingWorkflow.run (temporal_a2a_sdk/workflow_bridge.py)
SDKBridgedStreamingWorkflow_run(w, deliver) ==
    CASE w.pc = "start" ->
            Yield(Goto(Add(w, "working", 100, None, ""),
                       IF Truthy(gateway_workflow_id) THEN "signal_start" ELSE "activity"),
                  <<>>)
      [] w.pc = "signal_start" ->
            Signalled(w, Goto(w, "activity"),
                      ProgressUpdate(w, "working", 100, None), deliver)
      [] w.pc = "activity" ->
            Yield(CASE behaviour.handler = "none" -> Raise(w, "No handler found in agent")
                    [] behaviour.handler = "asyncgen" ->
                         IF ProducedChunks(HandlerChunks) = 0
                         THEN IF behaviour.outcome = "raise"
                              THEN Raise(Tick(w), behaviour.error)
                              ELSE Goto(w, "complete")
                         ELSE Goto(w, "chunk")
                    [] OTHER ->
                         IF behaviour.outcome = "raise"
                         THEN Raise(Tick(w), behaviour.error)
                         ELSE [Goto(Tick(w), "complete") EXCEPT !.final_result =
                                 A2AResponse_text(EchoFormat(TextOf(message_data)),
                                                  "Streaming Echo Response")],
                  <<>>)
      [] w.pc = "chunk" ->
            LET n == w.chunk_count + 1
                chunk == HandlerChunks[n]
                artifact == ArtifactDict(SdkStreamingId(w.task_id, "chunk", n),
                                         "Progressive Response", chunk)
                w1 == [Add(Tick(w), "working", ChunkProgress(n), ResultOf(artifact), "")
                          EXCEPT !.chunk_count = n, !.chunks = Append(@, chunk)]
            IN  Yield(IF Truthy(gateway_workflow_id)
                      THEN Goto(w1, "signal_chunk") ELSE Goto(w1, "next_chunk"), <<>>)
      [] w.pc = "signal_chunk" ->
            Signalled(w, Goto(w, "next_chunk"),
                      ProgressUpdate(w, "working", ChunkProgress(w.chunk_count),
                                     ArtifactDict(SdkStreamingId(w.task_id, "chunk",
                                                                 w.chunk_count),
                                                  "Progressive Response",
                                                  Last(w.chunks))),
                      deliver)
      [] w.pc = "next_chunk" ->
            \* the generator is resumed: it yields again, raises or is exhausted
            Yield(IF w.chunk_count < ProducedChunks(HandlerChunks) THEN Goto(w, "chunk")
                  ELSE IF behaviour.outcome = "raise" THEN Raise(Tick(w), behaviour.error)
                  ELSE Goto(w, "complete"), <<>>)
      [] w.pc = "complete" ->
            LET final_text == IF w.chunks = <<>> THEN <<>> ELSE Last(w.chunks)
                final_artifact == ArtifactDict(SdkStreamingId(w.task_id, "final", 0),
                                               "Complete Response", final_text)
                final_result == IF behaviour.handler = "asyncgen"
                                THEN ResultOf(final_artifact) ELSE w.final_result
                w1 == [Add(w, "completed", 1000, final_result, "")
                          EXCEPT !.final_result = final_result]
            IN  Yield(BridgedAfterCompleted(w1), <<>>)
      [] w.pc = "except" ->
            Yield(Return(Add(w, "failed", 0, None, w.error_msg),
                         ErrorResult(w.error_msg)), <<>>)

\* gateway_workflow_id and "streaming" in workflow_instance.agent_capabilities
InternalStreams == Truthy(gateway_workflow_id) /\ behaviour.streaming_capability

\* result.get("artifacts", [{}])[0] if result.get("artifacts") else None
FirstArtifact(result) ==
    IF Get(result, "artifacts", <<>>) # <<>> THEN result.artifacts[1] ELSE None

\* _execute_agent_workflow (temporal_a2a_sdk/internal/workflows.py): the run of
\* the internal EchoTaskWorkflow and StreamingEchoTaskWorkflow; it keeps no log
_execute_agent_workflow(w, deliver) ==
    CASE w.pc = "start" ->
            IF InternalStreams
            THEN Signalled(w, Goto(w, "activity"),
                           InternalUpdate(w, "working", 100, None), deliver)
            ELSE Yield(Goto(w, "activity"), <<>>)
      [] w.pc = "activity" ->
            LET result == A2AResponse_text(EchoLogic_process_message(TextOf(message_data)),
                                           "Response")
            IN  Yield(IF behaviour.outcome = "raise"
                      THEN Raise(Tick(w), behaviour.error)
                      ELSE IF InternalStreams
                      THEN [Goto(Tick(w), "signal_complete") EXCEPT !.final_result = result]
                      ELSE Return(Tick(w), result), <<>>)
      [] w.pc = "signal_complete" ->
            Signalled(w, Return(w, w.final_result),
                      InternalUpdate(w, "completed", 1000, FirstArtifact(w.final_result)),
                      deliver)
      [] w.pc = "except" ->
            IF InternalStreams
            THEN LET r == _signal_gateway(InternalUpdate(w, "failed", 0, None), deliver)
                 IN  Yield(IF r.raised THEN Goto(Tick(w), "crashed")
                           ELSE Return(Tick(w), [error |-> w.error_msg]), r.out)
            ELSE Yield(Return(w, [error |-> w.error_msg]), <<>>)

-----------------------------------------------------------------------------
(* Inputs *)

Kinds == {"AgentTask", "EchoTask", "BridgedTask", "Generated",
          "AgentStreaming", "StreamingEcho", "BridgedStreaming", "Internal"}

TaskIds == {<<"t", "1", "-", "x">>}

GatewayIds == {"gateway-1"}

Messages == {[parts |-> <<>>]} \cup {[parts |-> <<TextPart(t)>>] : t \in Texts}

\* the message itself, or the message wrapped with an optional gateway id
TaskInputs ==
    Messages
    \cup {[message |-> m] : m \in Messages}
    \cup {[gateway_workflow_id |-> g, message |-> m] : g \in GatewayIds, m \in Messages}

HandlerError == "handler failed"

Behaviour(outcome, error, variant, handler, raise_after, handle_ok, capability) ==
    [outcome |-> outcome, error |-> error, variant |-> variant, handler |-> handler,
     raise_after |-> raise_after, handle_ok |-> handle_ok,
     streaming_capability |-> capability, failed_attempts |-> 0]

\* how many attempts of the activity fail with a retryable error
MaxRetries == 1

\* what the activity or handler behind each workflow class can do
Behaviours(k) ==
    CASE k \in {"AgentTask", "EchoTask", "Generated"} ->
            {Behaviour(o, ActivityError, "plain", "coroutine", 0, FALSE, FALSE) :
                o \in {"ok", "raise"}}
      [] k = "BridgedTask" ->
            {Behaviour(o, e, "plain", h, 0, FALSE, FALSE) :
                o \in {"ok", "raise"}, e \in {HandlerError, ""},
                h \in {"coroutine", "none"}}
      [] k = "AgentStreaming" ->
            {[Behaviour(o, ActivityError, v, "coroutine", r, hk, FALSE)
                 EXCEPT !.failed_attempts = f] :
                o \in {"ok", "raise"}, v \in {"plain", "batch", "realtime"},
                r \in {0, 1}, hk \in BOOLEAN, f \in 0..MaxRetries}
      [] k = "StreamingEcho" ->
            {Behaviour("ok", ActivityError, "plain", "coroutine", 0, FALSE, FALSE)}
      [] k = "BridgedStreaming" ->
            {Behaviour(o, HandlerError, "plain", h, r, FALSE, FALSE) :
                o \in {"ok", "raise"}, h \in {"asyncgen", "coroutine", "none"},
                r \in {0, 1}}
      [] k = "Internal" ->
            {Behaviour(o, ActivityError, "plain", "coroutine", 0, FALSE, c) :
                o \in {"ok", "raise"}, c \in BOOLEAN}

-----------------------------------------------------------------------------
(* Specification: one task, run by one of the workflow classes *)

Final == {"done", "crashed"}

\* run() is suspended in an await that never resolves
Blocked == {"awaiting"}

\* run() was ended by an asyncio.CancelledError that no handler caught
Cancelled == {"cancelled"}

Halted == Final \cup Blocked \cup Cancelled

Init ==
    /\ kind \in Kinds
    /\ task_id \in TaskIds
    /\ task_input \in TaskInputs
    /\ behaviour \in Behaviours(kind)
    /\ wf = NewWorkflow(task_id)
    /\ ref = NewWorkflow(task_id)
    /\ gateway = <<>>
    /\ snapshot = <<>>

\* one step of run(): wf takes it with a delivery that may fail, ref takes the
\* same step with a delivery that succeeds
Step(run(_, _)) ==
    /\ wf.pc \notin Halted \/ ref.pc \notin Final
    /\ \E deliver \in BOOLEAN :
          LET r == IF wf.pc \in Halted THEN Yield(wf, <<>>) ELSE run(wf, deliver)
          IN  /\ wf' = r.w
              /\ gateway' = gateway \o r.out
    /\ ref' = IF ref.pc \in Final THEN ref ELSE run(ref, TRUE).w
    /\ UNCHANGED <<kind, task_id, task_input, behaviour, snapshot>>

AgentTaskWorkflowRun == kind = "AgentTask" /\ Step(AgentTaskWorkflow_run)

EchoTaskWorkflowRun == kind = "EchoTask" /\ Step(EchoTaskWorkflow_run)

SDKBridgedTaskWorkflowRun == kind = "BridgedTask" /\ Step(SDKBridgedTaskWorkflow_run)

GeneratedWorkflowRun == kind = "Generated" /\ Step(GeneratedWorkflow_run)

AgentStreamingWorkflowRun == kind = "AgentStreaming" /\ Step(AgentStreamingWorkflow_run)

StreamingEchoTaskWorkflowRun == kind = "StreamingEcho" /\ Step(StreamingEchoTaskWorkflow_run)

SDKBridgedStreamingWorkflowRun ==
    kind = "BridgedStreaming" /\ Step(SDKBridgedStreamingWorkflow_run)

InternalWorkflowRun == kind = "Internal" /\ Step(_execute_agent_workflow)

\* the gateway queries the workflow: get_progress_signals
GetProgressSignals ==
    /\ snapshot' = get_progress_signals(wf)
    /\ UNCHANGED <<kind, task_id, task_input, behaviour, wf, gateway, ref>>

Next ==
    \/ AgentTaskWorkflowRun
    \/ EchoTaskWorkflowRun
    \/ SDKBridgedTaskWorkflowRun
    \/ GeneratedWorkflowRun
    \/ AgentStreamingWorkflowRun
    \/ StreamingEchoTaskWorkflowRun
    \/ SDKBridgedStreamingWorkflowRun
    \/ InternalWorkflowRun
    \/ GetProgressSignals

Spec == Init /\ [][Next]_vars

-----------------------------------------------------------------------------
(* Specification: add_progress_signal and get_progress_signals called        *)
(* directly on a fresh workflow object, as the unit tests do                 *)

SomeResult == [test |-> "data"]

LogArgs ==
    {[status |-> "working", progress |-> 100, result |-> None, error |-> ""],
     [status |-> "working", progress |-> 500, result |-> SomeResult, error |-> ""],
     [status |-> "completed", progress |-> 1000, result |-> SomeResult, error |-> ""],
     [status |-> "failed", progress |-> 0, result |-> None, error |-> HandlerError]}

InitLog ==
    /\ kind = "StreamingEcho"
    /\ task_id \in TaskIds
    /\ task_input \in Messages
    /\ behaviour \in Behaviours(kind)
    /\ wf = NewWorkflow(task_id)
    /\ ref = NewWorkflow(task_id)
    /\ gateway = <<>>
    /\ snapshot = <<>>

\* workflow.add_progress_signal(status, progress, result, error); the clock of
\* the test double may or may not have moved since the last call
AddProgressSignal ==
    /\ Len(wf.calls) < MaxCalls
    /\ \E a \in LogArgs, dt \in {0, 1} :
          wf' = Add([wf EXCEPT !.now = @ + dt], a.status, a.progress, a.result, a.error)
    /\ UNCHANGED <<kind, task_id, task_input, behaviour, gateway, ref, snapshot>>

NextLog == AddProgressSignal \/ GetProgressSignals

SpecLog == InitLog /\ [][NextLog]_vars

-----------------------------------------------------------------------------
(* Specification: a streaming task with a gateway, where the await of         *)
(* handle.signal may never resolve; the engine runs the workflow whenever it *)
(* can take a step                                                           *)

StreamingKinds == {"AgentStreaming", "StreamingEcho", "BridgedStreaming"}

\* the places of run() that stand in await self._signal_gateway(...)
SignalPcs == {"signal_start", "signal_chunk", "signal_complete"}

RunOf(w, deliver) ==
    CASE kind = "AgentStreaming" -> AgentStreamingWorkflow_run(w, deliver)
      [] kind = "StreamingEcho" -> StreamingEchoTaskWorkflow_run(w, deliver)
      [] kind = "BridgedStreaming" -> SDKBridgedStreamingWorkflow_run(w, deliver)

InitStall ==
    /\ kind \in StreamingKinds
    /\ task_id \in TaskIds
    /\ task_input \in {[gateway_workflow_id |-> g, message |-> m] :
                           g \in GatewayIds, m \in Messages}
    /\ behaviour \in Behaviours(kind)
    /\ wf = NewWorkflow(task_id)
    /\ ref = NewWorkflow(task_id)
    /\ gateway = <<>>
    /\ snapshot = <<>>

\* await handle.signal("progress_update", update): the call is made and its
\* completion never arrives; _signal_gateway and run() stay suspended in it
SignalNeverCompletes ==
    /\ wf.pc \in SignalPcs
    /\ gateway' = gateway \o RunOf(wf, FALSE).out
    /\ wf' = Goto(wf, "awaiting")
    /\ UNCHANGED <<kind, task_id, task_input, behaviour, ref, snapshot>>

NextStall ==
    \/ AgentStreamingWorkflowRun
    \/ StreamingEchoTaskWorkflowRun
    \/ SDKBridgedStreamingWorkflowRun
    \/ SignalNeverCompletes
    \/ GetProgressSignals

SpecStall == InitStall /\ [][NextStall]_vars /\ WF_vars(NextStall)

-----------------------------------------------------------------------------
(* Specification: one task that a client may cancel while it runs            *)

\* the awaits of run() at which a cancellation request reaches it
AtAwait(w) ==
    \/ w.pc = "activity"
    \/ w.pc \in SignalPcs
    \/ kind = "StreamingEcho" /\ w.pc \in {"chunk", "complete"} /\ w.chunk_count > 0

CancelledError == "Cancelled"

\* A2AClient.cancel_task: handle.cancel().  The await of an activity ends either
\* with an ActivityError, which except Exception catches, or with the
\* CancelledError itself; asyncio.sleep and handle.signal end with the
\* CancelledError, a BaseException that except Exception lets through.
CancelTask ==
    /\ wf.pc \notin Halted
    /\ AtAwait(wf)
    /\ \/ wf.pc = "activity" /\ wf' = Raise(Tick(wf), CancelledError)
       \/ wf' = Goto(wf, "cancelled")
    /\ UNCHANGED <<kind, task_id, task_input, behaviour, gateway, ref, snapshot>>

NextCancel == Next \/ CancelTask

SpecCancel == Init /\ [][NextCancel]_vars

-----------------------------------------------------------------------------
(* Specification: two streaming tasks with different workflow ids run at     *)
(* the same time; wf is the instance of the first, ref of the second         *)

\* str(uuid.uuid4()) of A2AClient.send_message: groups separated by dashes
WorkflowIds == {<<"t", "1", "-", "x">>, <<"t", "1", "-", "y">>, <<"t", "2", "-", "x">>}

InitTasks ==
    /\ kind \in StreamingKinds
    /\ task_id \in WorkflowIds
    /\ task_input \in {[gateway_workflow_id |-> g, message |-> m] :
                           g \in GatewayIds, m \in Messages}
    /\ behaviour \in {b \in Behaviours(kind) :
                         /\ b.outcome = "ok" /\ b.failed_attempts = 0
                         /\ b.raise_after = 0 /\ b.handle_ok}
    /\ wf = NewWorkflow(task_id)
    /\ ref \in {NewWorkflow(t) : t \in WorkflowIds \ {task_id}}
    /\ gateway = <<>>
    /\ snapshot = <<>>

\* one step of run() of the first task
RunFirstTask ==
    /\ wf.pc \notin Halted
    /\ LET r == RunOf(wf, TRUE)
       IN  wf' = r.w /\ gateway' = gateway \o r.out
    /\ UNCHANGED <<kind, task_id, task_input, behaviour, ref, snapshot>>

RunSecondTask_shared_log ==
    /\ ref.pc \notin Halted
    /\ LET r == RunOf(ref, TRUE)
           appended == SubSeq(r.w.progress_signals, Len(ref.progress_signals) + 1,
                              Len(r.w.progress_signals))
       IN  /\ ref' = r.w
           /\ gateway' = gateway \o r.out
           /\ wf' = [wf EXCEPT !.progress_signals = @ \o appended]
    /\ UNCHANGED <<kind, task_id, task_input, behaviour, snapshot>>

\* one step of run() of the second task
RunSecondTask ==
    /\ ref.pc \notin Halted
    /\ LET r == RunOf(ref, TRUE)
       IN  ref' = r.w /\ gateway' = gateway \o r.out
    /\ UNCHANGED <<kind, task_id, task_input, behaviour, wf, snapshot>>

NextTasks == RunFirstTask \/ RunSecondTask \/ GetProgressSignals

SpecTasks == InitTasks /\ [][NextTasks]_vars

-----------------------------------------------------------------------------
(* The gateway's EventTranslator, status rule *)

\* translatorState before the first event: nothing emitted, latch open
translatorState ==
    [last_emitted |-> NoneId, final_sent |-> FALSE, wire |-> <<>>]

StatusUpdate(event) ==
    [kind |-> "status-update", taskId |-> event.taskId,
     status |-> [state |-> event.status, timestamp |-> event.timestamp],
     final |-> IsTerminal(event.status)]

EventTranslator_every_event(event, st) ==
    [st EXCEPT !.last_emitted = event.status,
               !.wire = Append(@, StatusUpdate(event))]

\* one progress event: a status-update when the status differs from the last
\* emitted one; nothing once the final status-update has been sent
EventTranslator(event, st) ==
    IF st.final_sent \/ event.status = st.last_emitted THEN st
    ELSE [last_emitted |-> event.status,
          final_sent |-> IsTerminal(event.status),
          wire |-> Append(st.wire, StatusUpdate(event))]

RECURSIVE Translate(_, _)
Translate(events, st) ==
    IF events = <<>> THEN st
    ELSE Translate(Tail(events), EventTranslator(Head(events), st))

-----------------------------------------------------------------------------
(* Observations *)

log == wf.progress_signals

Range(s) == {s[i] : i \in 1..Len(s)}

\* the update dict of every signal call, in the order of the calls
Updates == [i \in 1..Len(gateway) |-> gateway[i].update]

TerminalEvents(events) == {i \in 1..Len(events) : IsTerminal(events[i].status)}

ArtifactsOf(result) == Get(result, "artifacts", <<>>)

HasArtifact(update) == "artifact" \in DOMAIN update

TextOfArtifact(artifact) == artifact.parts[1].text

\* identity and content of an artifact, without its name and description
Content(artifact) == [artifactId |-> artifact.artifactId, parts |-> artifact.parts]

\* the artifacts of the events of a log, in log order
RECURSIVE LogArtifacts(_)
LogArtifacts(events) ==
    IF events = <<>> THEN <<>>
    ELSE LogArtifacts(SubSeq(events, 1, Len(events) - 1))
         \o ArtifactsOf(Last(events).result)

\* the artifacts of the signals, in the order sent
RECURSIVE SignalArtifacts(_)
SignalArtifacts(updates) ==
    IF updates = <<>> THEN <<>>
    ELSE SignalArtifacts(SubSeq(updates, 1, Len(updates) - 1))
         \o (IF HasArtifact(Last(updates)) THEN <<Last(updates).artifact>> ELSE <<>>)

\* later chunks overwrite earlier ones by id: the last artifact of every id
LatestById(artifacts) ==
    {Content(artifacts[i]) : i \in {j \in 1..Len(artifacts) :
        \A k \in (j + 1)..Len(artifacts) :
            artifacts[k].artifactId # artifacts[j].artifactId}}

\* the state a reader folds out of the log, from index 0
FoldLog(events) ==
    [status |-> IF events = <<>> THEN "submitted" ELSE Last(events).status,
     artifacts |-> LatestById(LogArtifacts(events)),
     error |-> IF events # <<>> /\ Last(events).status = "failed"
               THEN Last(events).error ELSE ""]

\* the state a push consumer folds out of the signals it was sent
FoldSignals(updates) ==
    [status |-> IF updates = <<>> THEN "submitted" ELSE Last(updates).status,
     artifacts |-> LatestById(SignalArtifacts(updates)),
     error |-> IF updates # <<>> /\ Last(updates).status = "failed"
               THEN Get(Last(updates), "error", "") ELSE ""]

Failed(ret) == "error" \in DOMAIN ret

\* the task was started with a gateway_workflow_id and its workflow class
\* pushes progress to the gateway
Pushes ==
    /\ Truthy(gateway_workflow_id)
    /\ kind \in {"AgentStreaming", "StreamingEcho", "BridgedStreaming", "Internal"}
    /\ kind = "Internal" => behaviour.streaming_capability

-----------------------------------------------------------------------------
(* Claims *)

\* C1: in every reachable state the log of a task holds at most one event
\* whose status is completed, failed or canceled.
C1_AtMostOneTerminalEvent == Cardinality(TerminalEvents(log)) <= 1

\* C2: once the run of a task that pushes to a gateway is over and its log holds a
\* terminal event, the final state folded from the signals sent to the gateway
\* (status, latest artifact per artifactId, error) equals the final state
\* folded from the log.
C2_PushEqualsSnapshot ==
    (wf.pc = "done" /\ Pushes /\ TerminalEvents(log) # {})
        => FoldSignals(Updates) = FoldLog(log)

\* C3: when the run of a task that pushes to a gateway has ended, by success
\* or by failure, a signal with a terminal status has been sent to the gateway.
C3_TerminalSignalSent ==
    (wf.pc = "done" /\ Pushes)
        => \E i \in 1..Len(gateway) : IsTerminal(Updates[i].status)

\* C4: a signal with a terminal status is the last signal sent for the task:
\* there is at most one, and no signal follows it.
C4_TerminalSignalIsLast ==
    \A i \in 1..Len(gateway) : IsTerminal(Updates[i].status) => i = Len(gateway)

C4_Witness ==
    /\ wf.pc = "done"
    /\ Len(gateway) >= 3
    /\ IsTerminal(Last(Updates).status)

\* C5: whichever signal deliveries fail, the run is at the same place, with
\* the same log and the same return value, as the run of the same task in
\* which every delivery succeeds; in particular it finishes when that one does.
C5_DeliveryFailuresInvisible ==
    /\ wf.pc = ref.pc
    /\ wf.progress_signals = ref.progress_signals
    /\ wf.ret = ref.ret

C5_Witness ==
    /\ wf.pc = "done"
    /\ \E i \in 1..Len(gateway) : ~gateway[i].delivered /\ gateway[i].sender = "workflow"
    /\ \E i \in 1..Len(gateway) : ~gateway[i].delivered /\ gateway[i].sender = "activity"
    /\ \E i \in 1..Len(gateway) : gateway[i].delivered

\* C6: when run has returned, every terminal event of the log agrees with the
\* returned value, and there is one: after a success it is a completed event
\* whose result is the returned result, after a failure a failed event whose
\* error is the returned error.
C6_TerminalEventAgreesWithReturn ==
    (wf.pc = "done" /\ kind # "Internal") =>
        /\ TerminalEvents(log) # {}
        /\ \A i \in TerminalEvents(log) :
              IF Failed(wf.ret)
              THEN log[i].status = "failed" /\ log[i].error = wf.ret.error
              ELSE log[i].status = "completed" /\ log[i].result = wf.ret

\* C7: within one task all artifact-bearing events of the log and all
\* artifact-bearing signals carry the same artifactId.
C7_OneArtifactIdPerTask ==
    \A a, b \in Range(LogArtifacts(log)) \cup Range(SignalArtifacts(Updates)) :
        a.artifactId = b.artifactId

\* the chunks of the streaming response and its full text, as the workflow
\* class of the task produces them
ResponseChunks ==
    IF kind = "StreamingEcho"
    THEN [i \in 1..Len(split(echo_response)) |-> JoinUpTo(split(echo_response), i)]
    ELSE ActivityChunks

FullText == IF kind = "StreamingEcho" THEN echo_response ELSE Last(ActivityChunks)

\* a streaming task with a reachable gateway whose activity succeeds
StreamsChunks ==
    /\ Truthy(gateway_workflow_id)
    /\ \/ kind = "StreamingEcho"
       \/ /\ kind = "AgentStreaming"
          /\ behaviour.variant \in {"batch", "realtime"}
          /\ behaviour.variant = "realtime" => behaviour.handle_ok
    /\ behaviour.outcome = "ok"
    /\ behaviour.failed_attempts = 0
    /\ \A i \in 1..Len(gateway) : gateway[i].delivered

\* the signal that stands at place i of the feed of a response of n chunks
WellPlaced(update, i, n) ==
    CASE i = 1 -> update.status = "working" /\ ~HasArtifact(update)
      [] i \in 2..(n + 1) ->
            /\ update.status = "working"
            /\ HasArtifact(update)
            /\ TextOfArtifact(update.artifact) = ResponseChunks[i - 1]
            /\ update.lastChunk = FALSE
      [] i = n + 2 ->
            /\ update.status = "completed"
            /\ HasArtifact(update)
            /\ TextOfArtifact(update.artifact) = FullText
            /\ update.lastChunk = TRUE
      [] OTHER -> FALSE

\* C8: the signals of a streaming task with a gateway whose activity produces
\* the chunks c1..cn and succeeds are, in this order, a working signal without
\* artifact, a working signal with chunk ci and lastChunk=false for i = 1..n,
\* and a completed signal with the full text and lastChunk=true; nothing else
\* is sent, and when run has returned all of them have been sent.
C8_SignalSequence ==
    StreamsChunks =>
        /\ \A i \in 1..Len(gateway) : WellPlaced(Updates[i], i, Len(ResponseChunks))
        /\ wf.pc = "done" => Len(gateway) = Len(ResponseChunks) + 2

IsPrefix(s, t) == Len(s) <= Len(t) /\ s = SubSeq(t, 1, Len(s))

\* C9: the log is the sequence of the add_progress_signal calls: after n calls
\* it has n entries, the i-th entry has the status, progress, result and error
\* of the i-th call, what a query returned is a prefix of the log ever after,
\* and an append leaves every entry that is already there in its place.
C9_LogIsAppendOrder ==
    /\ [](/\ Len(log) = Len(wf.calls)
          /\ \A i \in 1..Len(log) :
                /\ log[i].status = wf.calls[i].status
                /\ log[i].progress = wf.calls[i].progress
                /\ log[i].result = wf.calls[i].result
                /\ log[i].error = wf.calls[i].error
          /\ IsPrefix(snapshot, log))
    /\ [][IsPrefix(wf.progress_signals, wf'.progress_signals)]_vars

C9_Witness ==
    /\ Len(log) >= 3
    /\ log[1].status = "working" /\ log[1].progress = 100
    /\ log[2].status = "working" /\ log[2].progress = 500
    /\ log[3].status = "completed"
    /\ snapshot = log

\* the event add_progress_signal builds for a call made on instance w
EventOf(call, w) ==
    [taskId |-> w.task_id, status |-> call.status, progress |-> call.progress,
     result |-> call.result, error |-> call.error, timestamp |-> w.now]

\* C10: a call of add_progress_signal that appends an event the log already
\* holds leaves the length and the content of the log as they were.
C10_ReappendIsIdempotent ==
    [][(/\ Len(wf'.calls) > Len(wf.calls)
        /\ EventOf(Last(wf'.calls), wf') \in Range(wf.progress_signals))
          => wf'.progress_signals = wf.progress_signals]_vars

\* C11: a call of add_progress_signal on a log that already holds a terminal
\* event leaves the length and the content of the log as they were.
C11_AppendAfterTerminalIsNoOp ==
    [][(/\ Len(wf'.calls) > Len(wf.calls)
        /\ TerminalEvents(wf.progress_signals) # {})
          => wf'.progress_signals = wf.progress_signals]_vars

\* the signals that carry a chunk of the response: working, with an artifact
ChunkSignals ==
    {i \in 1..Len(gateway) : Updates[i].status = "working" /\ HasArtifact(Updates[i])}

\* C12: each chunk of the response reaches the gateway at most once, also when
\* the streaming activity is executed more than once: no two delivered chunk
\* signals carry the same artifact id and text.
C12_ChunkDeliveredAtMostOnce ==
    \A i, j \in ChunkSignals :
        (i < j /\ gateway[i].delivered /\ gateway[j].delivered)
            => Content(Updates[i].artifact) # Content(Updates[j].artifact)

\* the signals that carry an artifact and lastChunk=true
LastChunkSignals ==
    {i \in 1..Len(gateway) :
        HasArtifact(Updates[i]) /\ Get(Updates[i], "lastChunk", FALSE)}

\* C13: among the signals sent for a task at most one per artifactId carries
\* lastChunk=true.
C13_OneLastChunkPerArtifact ==
    \A i, j \in LastChunkSignals :
        Updates[i].artifact.artifactId = Updates[j].artifact.artifactId => i = j

C13_Witness ==
    /\ wf.pc = "done"
    /\ \E i \in LastChunkSignals :
          Cardinality({j \in ChunkSignals :
              /\ Updates[j].artifact.artifactId = Updates[i].artifact.artifactId
              /\ ~Updates[j].lastChunk}) >= 2

\* the signals that carry an artifact
ArtifactSignals == {i \in 1..Len(gateway) : HasArtifact(Updates[i])}

\* C14: for every artifactId the first signal sent with that id has
\* append=false and every later signal with that id has append=true.
C14_AppendAfterFirst ==
    \A i \in ArtifactSignals :
        Get(Updates[i], "append", FALSE) =
            (\E j \in ArtifactSignals :
                j < i /\ Updates[j].artifact.artifactId = Updates[i].artifact.artifactId)

\* the text of the response after its first k words
CumulativeText(k) == JoinUpTo(split(echo_response), k)

\* C15: every artifact update of a response built word by word carries the
\* full text so far and append=false, and only the final one has lastChunk=true.
C15_CumulativeTextNoAppend ==
    kind = "StreamingEcho" =>
        \A i \in ArtifactSignals :
            LET k == Cardinality({j \in ArtifactSignals : j <= i})
            IN  /\ TextOfArtifact(Updates[i].artifact) =
                       (IF Updates[i].status = "completed"
                        THEN echo_response ELSE CumulativeText(k))
                /\ Updates[i].append = FALSE
                /\ Updates[i].lastChunk = (Updates[i].status = "completed")

\* a streaming activity of AgentStreamingWorkflow that can reach the gateway
ActivityStreams ==
    /\ kind = "AgentStreaming"
    /\ Truthy(gateway_workflow_id)
    /\ behaviour.variant \in {"batch", "realtime"}
    /\ behaviour.variant = "realtime" => behaviour.handle_ok

\* C16: each chunk the activity passes to stream.send_chunk is signalled to
\* the gateway before the activity produces its next chunk: of the chunks
\* passed to send_chunk so far at most the latest is not yet signalled.
C16_ChunksSignalledAsProduced ==
    ActivityStreams => wf.sent_chunks <= Cardinality(ChunkSignals) + 1

\* C17: a signal delivery that never completes does not stop the task: the
\* workflow eventually has a terminal event in its log and has returned.
C17_StalledSignalDoesNotStop ==
    <>(wf.pc = "done" /\ TerminalEvents(log) # {})

\* C18: when a streaming task of AgentStreamingWorkflow completes, the artifact
\* of its completed event and of its lastChunk=true signal holds the text of
\* the last chunk the activity produced, whichever StreamingContext feeds it.
C18_CompletedCarriesFullText ==
    (kind = "AgentStreaming" /\ behaviour.variant \in {"batch", "realtime"}) =>
        /\ \A i \in 1..Len(log) :
              log[i].status = "completed" =>
                  TextOfArtifact(ArtifactsOf(log[i].result)[1]) = Last(ActivityChunks)
        /\ \A i \in LastChunkSignals :
              TextOfArtifact(Updates[i].artifact) = Last(ActivityChunks)

\* the events of the log that carry a chunk: working, with an artifact
ChunkEvents ==
    {i \in 1..Len(log) : log[i].status = "working" /\ ArtifactsOf(log[i].result) # <<>>}

\* C19: in the log of a task every progress lies in [0.0, 1.0], the progress
\* of successive events does not decrease unless the later event is a failed
\* one, and chunk events have a progress between 0.3 and 0.9.
C19_ProgressBoundedMonotone ==
    /\ \A i \in 1..Len(log) : log[i].progress >= 0 /\ log[i].progress <= 1000
    /\ \A i \in 1..(Len(log) - 1) :
          log[i + 1].status # "failed" => log[i].progress <= log[i + 1].progress
    /\ \A i \in ChunkEvents : log[i].progress >= 300 /\ log[i].progress <= 900

C19_Witness ==
    /\ wf.pc = "done"
    /\ log # <<>>
    /\ Last(log).status = "completed"
    /\ \E i, j \in ChunkEvents : log[i].progress < log[j].progress

\* the delivered signals that carry a progress value
ProgressSignals ==
    {i \in 1..Len(gateway) : gateway[i].delivered /\ "progress" \in DOMAIN Updates[i]}

C21_ReadsLeaveLogIntact ==
    /\ [](IsPrefix(snapshot, log) /\ log = ref.progress_signals)
    /\ [][snapshot' # snapshot =>
              /\ wf'.progress_signals = wf.progress_signals
              /\ snapshot' = wf.progress_signals]_vars

C21_Witness ==
    /\ snapshot # <<>>
    /\ Len(log) > Len(snapshot)
    /\ \E i \in 1..Len(gateway) : ~gateway[i].delivered
    /\ wf.pc = "done"

\* C22: once the run of a task has ended, by a return, by a failure or by a
\* cancellation, the last entry of its log is a terminal event.
C22_EndedTaskHasTerminalEvent ==
    (wf.pc \in {"done", "cancelled"} /\ kind # "Internal") =>
        log # <<>> /\ IsTerminal(Last(log).status)

\* C23: in every reachable log an event carries a non-empty error only if its
\* status is failed; every working and completed event has an empty error.
C23_ErrorOnlyOnFailed ==
    \A i \in 1..Len(log) : log[i].error # "" => log[i].status = "failed"

C23_Witness ==
    /\ Len(log) >= 2
    /\ Last(log).status = "failed" /\ Last(log).error # ""
    /\ \E i \in 1..Len(log) : log[i].status = "working" /\ log[i].error = ""

\* the progress signals that reached the gateway workflow, in arrival order
Delivered ==
    LET d == SelectSeq(gateway, LAMBDA c : c.delivered)
    IN  [i \in 1..Len(d) |-> d[i].update]

StatusFeed == Translate(Delivered, translatorState).wire

\* C24: no status value appears twice in the status-update feed of a task,
\* however many working signals the workflow sends.
C24_NoStatusTwiceInFeed ==
    \A i, j \in 1..Len(StatusFeed) :
        i < j => StatusFeed[i].status.state # StatusFeed[j].status.state

C24_Witness ==
    /\ Cardinality({i \in 1..Len(Delivered) : Delivered[i].status = "working"}) >= 2
    /\ Len(StatusFeed) = 2
    /\ StatusFeed[1].status.state = "working" /\ ~StatusFeed[1].final
    /\ StatusFeed[2].final

FailedEvents(events) == {i \in 1..Len(events) : events[i].status = "failed"}

\* the exception message run() caught in its except branch
Caught == wf.pc = "except" /\ wf' # wf

WorkflowSignals == {i \in 1..Len(gateway) : gateway[i].sender = "workflow"}

LoggedChunks ==
    LET events == SelectSeq(log, LAMBDA e : e.status = "working"
                                            /\ ArtifactsOf(e.result) # <<>>)
    IN  [i \in 1..Len(events) |-> TextOfArtifact(ArtifactsOf(events[i].result)[1])]

BatchStreaming == kind = "AgentStreaming" /\ behaviour.variant = "batch"

\* C27: the chunk events of the log carry the chunks in the order in which the
\* activity passed them to send_chunk, one working event per chunk: while the
\* loop runs they are a prefix of the chunks sent, at the end all of them.
C27_ChunkEventsInSendOrder ==
    BatchStreaming =>
        /\ IsPrefix(LoggedChunks, ActivityChunks)
        /\ wf.pc = "done" /\ Last(log).status = "completed" =>
               LoggedChunks = ActivityChunks

C27_Witness ==
    /\ BatchStreaming
    /\ wf.pc = "done"
    /\ Len(LoggedChunks) >= 2
    /\ LoggedChunks[1] # LoggedChunks[2]
    /\ LoggedChunks = ActivityChunks

\* the texts of the artifacts of the log, chunk events first, final event last
LoggedTexts ==
    LET artifacts == LogArtifacts(log)
    IN  [i \in 1..Len(artifacts) |-> TextOfArtifact(artifacts[i])]

\* C28: for every input text the artifact texts of a streaming echo task form
\* a prefix chain: each chunk's text starts with the text of the chunk before
\* it, and the final artifact's text starts with the last chunk's text.
C28_ArtifactTextsFormPrefixChain ==
    kind \in {"StreamingEcho", "AgentStreaming"} =>
        \A i \in 1..(Len(LoggedTexts) - 1) : IsPrefix(LoggedTexts[i], LoggedTexts[i + 1])

\* the artifact ids a task put into its log
ArtifactIdsOf(w) ==
    {LogArtifacts(w.progress_signals)[i].artifactId :
        i \in 1..Len(LogArtifacts(w.progress_signals))}

\* the artifact ids of the signals sent for task tid, by run() or by the activity
SignalledIdsOf(tid) ==
    {Updates[i].artifact.artifactId :
        i \in {j \in 1..Len(Updates) : HasArtifact(Updates[j]) /\ Updates[j].taskId = tid}}

\* C29: the artifactId of a streaming response is a function of the workflow
\* id only: activity and workflow use the same id for the same task, and two
\* tasks with different workflow ids get different artifactIds.
C29_ArtifactIdPerTask ==
    kind = "AgentStreaming" =>
        /\ \A w \in {wf, ref} :
              Cardinality(ArtifactIdsOf(w) \cup SignalledIdsOf(w.task_id)) <= 1
        /\ wf.task_id # ref.task_id =>
              (ArtifactIdsOf(wf) \cup SignalledIdsOf(wf.task_id))
                  \cap (ArtifactIdsOf(ref) \cup SignalledIdsOf(ref.task_id)) = {}

OwnEvents(w) ==
    \A i \in 1..Len(w.progress_signals) : w.progress_signals[i].taskId = w.task_id

\* C30: of two tasks that run at the same time each has its own log: every
\* event carries the workflow id of its own task, and an append by one task
\* leaves what get_progress_signals returns for the other task as it was.
C30_EachTaskHasItsOwnLog ==
    /\ [](wf.task_id # ref.task_id /\ OwnEvents(wf) /\ OwnEvents(ref))
    /\ [][ref'.progress_signals # ref.progress_signals =>
              get_progress_signals(wf') = get_progress_signals(wf)]_vars
    /\ [][wf'.progress_signals # wf.progress_signals =>
              get_progress_signals(ref') = get_progress_signals(ref)]_vars

C30_Witness ==
    /\ wf.task_id # ref.task_id
    /\ wf.pc \notin Halted /\ ref.pc \notin Halted
    /\ Len(wf.progress_signals) >= 2 /\ Len(ref.progress_signals) >= 2
    /\ Len(wf.progress_signals) # Len(ref.progress_signals)
    /\ snapshot # <<>>

====
